---- MODULE Spec2Model ----
(***************************************************************************)
(* Model of app.py, the annual portfolio allocator.  The script is one run *)
(* from top to bottom on one snapshot of the sidebar inputs: gap           *)
(* calculation, tolerance filtering, allocation, projection, the VIX       *)
(* fetch, the "after" tab, the instruction column and the VIX panel.       *)
(*                                                                         *)
(* The sidebar number inputs have integer defaults and steps, so every     *)
(* input is a Python int.  Everything computed from them with / and * is   *)
(* a Python float, modelled bit for bit as an IEEE-754 double.  The        *)
(* formatted texts of the page (amounts, percentages) are not part of the  *)
(* state; of the profit section (lines 141-152) nothing is.                *)
(***************************************************************************)
EXTENDS Integers, FiniteSets, Sequences, TLC

VARIABLES
    target,                 \* target_orkan / target_gold / target_cash
    current,                \* current_orkan / current_gold / current_cash
    additional_fund,        \* additional_fund
    pc,                     \* position of the script run
    fault_line,             \* source line of an uncaught ZeroDivisionError, 0 if none
    projected_total_assets, \* projected_total_assets
    ideal,                  \* ideal_*
    raw_gap,                \* raw_gap_*
    adj_gap,                \* adj_gap_*
    status,                 \* status_*
    alloc,                  \* alloc_*
    future,                 \* future_*
    future_total,           \* future_total
    instructions,           \* what the instruction column shows
    current_vix,            \* current_vix
    vix_shown               \* the tier message the VIX panel shows

vars == <<target, current, additional_fund, pc, fault_line,
          projected_total_assets, ideal, raw_gap, adj_gap, status, alloc,
          future, future_total, instructions, current_vix, vix_shown>>

----------------------------------------------------------------------------
(* Bounds of the input space and program constants *)

MaxTargetPresses == 1
MaxMoneySteps == 1
MaxFundUnits == 1

TargetStep == 5
MoneyStep == 10
DefaultTargetOrkan == 60
DefaultTargetGold == 10
DefaultTargetCash == 30
DefaultCurrentOrkan == 650
DefaultCurrentGold == 150
DefaultCurrentCash == 200
DefaultAdditionalFund == 100
ToleranceSplit == 20
NarrowBand == 5
WideBand == 10
VixPanic == 30
VixCaution == 20
VixCalm == 15

Assets == {"orkan", "gold", "cash"}

DefaultTarget ==
    [a \in Assets |->
        IF a = "orkan" THEN DefaultTargetOrkan
        ELSE IF a = "gold" THEN DefaultTargetGold
        ELSE DefaultTargetCash]

DefaultCurrent ==
    [a \in Assets |->
        IF a = "orkan" THEN DefaultCurrentOrkan
        ELSE IF a = "gold" THEN DefaultCurrentGold
        ELSE DefaultCurrentCash]

\* Values typed into a target field rather than stepped to: nothing (0), a
\* negative value (the field has no min_value) and the two sides of the
\* tolerance split.
TypedTargets ==
    [a \in Assets |->
        IF a = "orkan" THEN {0, ToleranceSplit}
        ELSE IF a = "gold" THEN {-TargetStep, 0, ToleranceSplit + 1}
        ELSE {0, ToleranceSplit + 1}]

\* the default, the default stepped down, or a typed value
TargetChoices(a) ==
    {DefaultTarget[a] - k * TargetStep : k \in 0..MaxTargetPresses}
        \cup TypedTargets[a]

\* the default or a value on a grid five widget steps wide
MoneyChoices(a) ==
    {k * (5 * MoneyStep) : k \in 0..MaxMoneySteps} \cup {DefaultCurrent[a]}

\* Amounts typed off the widget step, for which the rounding of the doubles
\* decides the tolerance test of a 5 % target with nothing held: with 1 on
\* an empty portfolio and with 84 on 50/0/50 the gap is just above 5 % of
\* the total and the deviation rounds to exactly 5.0; with 1 on 50/0/50 the
\* gap is 5.050000000000001 of 101 and the deviation 5.000000000000001.
TypedFunds == {1, 84}

\* the field has no min_value: a negative amount can be typed
FundChoices ==
    {k * DefaultAdditionalFund : k \in (-1)..MaxFundUnits} \cup TypedFunds

\* 0, and the values at and next to the tier boundaries
VixChoices == {0, VixCalm - 1, VixCalm, VixCaution, VixPanic, VixPanic + 1}

\* one snapshot of the seven sidebar fields
InputSnapshot ==
    /\ target \in [Assets -> UNION {TargetChoices(a) : a \in Assets}]
    /\ \A a \in Assets : target[a] \in TargetChoices(a)
    /\ current \in [Assets -> UNION {MoneyChoices(a) : a \in Assets}]
    /\ \A a \in Assets : current[a] \in MoneyChoices(a)
    /\ additional_fund \in FundChoices

----------------------------------------------------------------------------
(* IEEE-754 binary64 arithmetic (round to nearest, ties to even), as       *)
(* Python's float operations perform it.  A double is                      *)
(*     [neg, hi, lo, e]  with value  (-1)^neg * (hi * 2^28 + lo) * 2^e,    *)
(* its 53-bit significand split into two words; a non-zero double has      *)
(* 2^24 <= hi < 2^25, a zero has hi = lo = e = 0 and keeps its sign.       *)
(* Intermediate exact integers are four words <<w0, w1, w2, w3>>, least    *)
(* significant first.  The values of a run stay far from the overflow and  *)
(* subnormal ranges, which are not modelled.                               *)

Word == 268435456
Limb == 16384
TopWord == 16777216

Pow2 ==
    <<1, 2, 4, 8, 16, 32, 64, 128, 256, 512, 1024, 2048, 4096, 8192, 16384,
      32768, 65536, 131072, 262144, 524288, 1048576, 2097152, 4194304,
      8388608, 16777216, 33554432, 67108864, 134217728, 268435456>>

P2(k) == Pow2[k + 1]

Abs(x) == IF x < 0 THEN -x ELSE x

\* number of bits of 0 <= x < 2^7
BitLen7(x) ==
    IF x >= 64 THEN 7
    ELSE IF x >= 32 THEN 6
    ELSE IF x >= 16 THEN 5
    ELSE IF x >= 8 THEN 4
    ELSE IF x >= 4 THEN 3
    ELSE IF x >= 2 THEN 2
    ELSE x

\* number of bits of 0 <= x < 2^14
BitLen14(x) == IF x >= 128 THEN 7 + BitLen7(x \div 128) ELSE BitLen7(x)

\* number of bits of 0 <= x < 2^28
BitLen(x) == IF x >= Limb THEN 14 + BitLen14(x \div Limb) ELSE BitLen14(x)

NZero == <<0, 0, 0, 0>>

NWord(n, i) == IF i >= 1 /\ i <= 4 THEN n[i] ELSE 0

\* number of bits of n # 0
NBitLen(n) ==
    LET top == IF n[4] # 0 THEN 4
               ELSE IF n[3] # 0 THEN 3
               ELSE IF n[2] # 0 THEN 2
               ELSE 1
    IN  28 * (top - 1) + BitLen(n[top])

\* n \div 2^s
NShiftRight(n, s) ==
    LET q == s \div 28
        r == s % 28
    IN  [i \in 1..4 |->
            (NWord(n, i + q) \div P2(r))
                + (NWord(n, i + q + 1) % P2(r)) * P2(28 - r)]

\* n * 2^s, for a product below 2^112
NShiftLeft(n, s) ==
    LET q == s \div 28
        r == s % 28
    IN  [i \in 1..4 |->
            (NWord(n, i - q) % P2(28 - r)) * P2(r)
                + (NWord(n, i - q - 1) \div P2(28 - r))]

\* bit k of n
NBit(n, k) == (n[(k \div 28) + 1] \div P2(k % 28)) % 2

\* n % 2^k = 0
NLowZero(n, k) ==
    LET q == k \div 28
        r == k % 28
    IN  /\ \A i \in 1..4 : i <= q => n[i] = 0
        /\ NWord(n, q + 1) % P2(r) = 0

NAdd(x, y) ==
    LET s1 == x[1] + y[1]
        s2 == x[2] + y[2] + (s1 \div Word)
        s3 == x[3] + y[3] + (s2 \div Word)
        s4 == x[4] + y[4] + (s3 \div Word)
    IN  <<s1 % Word, s2 % Word, s3 % Word, s4 % Word>>

\* x - y for x >= y
NSub(x, y) ==
    LET d1 == x[1] - y[1]
        b1 == IF d1 < 0 THEN 1 ELSE 0
        d2 == x[2] - y[2] - b1
        b2 == IF d2 < 0 THEN 1 ELSE 0
        d3 == x[3] - y[3] - b2
        b3 == IF d3 < 0 THEN 1 ELSE 0
        d4 == x[4] - y[4] - b3
    IN  <<d1 + b1 * Word, d2 + b2 * Word, d3 + b3 * Word, d4>>

NLess(x, y) ==
    \/ x[4] < y[4]
    \/ x[4] = y[4] /\ x[3] < y[3]
    \/ x[4] = y[4] /\ x[3] = y[3] /\ x[2] < y[2]
    \/ x[4] = y[4] /\ x[3] = y[3] /\ x[2] = y[2] /\ x[1] < y[1]

FZero(neg) == [neg |-> neg, hi |-> 0, lo |-> 0, e |-> 0]

FIsZero(x) == x.hi = 0 /\ x.lo = 0

\* the double (-1)^neg * m * 2^e of a 53-bit significand m
FPack(neg, m, e) == [neg |-> neg, hi |-> m[2], lo |-> m[1], e |-> e]

\* the double nearest to (-1)^neg * (t + r) * 2^e for a 53-bit t and a
\* dropped fraction 0 <= r < 1: half says r >= 1/2, rest says r is neither
\* 0 nor 1/2; a tie goes to the even significand
FRoundUp(neg, t, e, half, rest) ==
    LET up == half /\ (rest \/ t[1] % 2 = 1)
        lo1 == IF up THEN t[1] + 1 ELSE t[1]
        hi1 == IF lo1 = Word THEN t[2] + 1 ELSE t[2]
    IN  IF hi1 = 2 * TopWord
        THEN [neg |-> neg, hi |-> TopWord, lo |-> 0, e |-> e + 1]
        ELSE [neg |-> neg, hi |-> hi1, lo |-> lo1 % Word, e |-> e]

\* FRound for n # 0 of len bits
FRoundBits(neg, n, e, sticky, len) ==
    IF len <= 53
    THEN FPack(neg, NShiftLeft(n, 53 - len), e - (53 - len))
    ELSE FRoundUp(neg, NShiftRight(n, len - 53), e + (len - 53),
                  NBit(n, len - 54) = 1,
                  sticky \/ ~NLowZero(n, len - 54))

\* the double nearest to (-1)^neg * (n + f) * 2^e, where 0 <= f < 1 and
\* sticky says whether f > 0; a sticky n has more than 54 bits
FRound(neg, n, e, sticky) ==
    IF n = NZero THEN FZero(neg)
    ELSE FRoundBits(neg, n, e, sticky, NBitLen(n))

\* float(n) for an int n
FInt(n) ==
    IF n = 0 THEN FZero(FALSE)
    ELSE FRound(n < 0, <<Abs(n) % Word, Abs(n) \div Word, 0, 0>>, 0, FALSE)

FNeg(x) == [x EXCEPT !.neg = ~x.neg]
FAbs(x) == [x EXCEPT !.neg = FALSE]

\* |x| < |y|
FMagLess(x, y) ==
    IF FIsZero(y) THEN FALSE
    ELSE IF FIsZero(x) THEN TRUE
    ELSE \/ x.e < y.e
         \/ x.e = y.e /\ x.hi < y.hi
         \/ x.e = y.e /\ x.hi = y.hi /\ x.lo < y.lo

FLt(x, y) ==
    IF FIsZero(x) /\ FIsZero(y) THEN FALSE
    ELSE IF FIsZero(x) THEN ~y.neg
    ELSE IF FIsZero(y) THEN x.neg
    ELSE IF x.neg # y.neg THEN x.neg
    ELSE IF x.neg THEN FMagLess(y, x)
    ELSE FMagLess(x, y)

FLe(x, y) == ~FLt(y, x)

\* nb * 2^e with sign bneg plus ns * 2^e with sign sneg
FAddAligned(bneg, nb, sneg, ns, e) ==
    IF bneg = sneg THEN FRound(bneg, NAdd(nb, ns), e, FALSE)
    ELSE IF nb = ns THEN FZero(FALSE)
    ELSE FRound(IF NLess(nb, ns) THEN sneg ELSE bneg,
                IF NLess(nb, ns) THEN NSub(ns, nb) ELSE NSub(nb, ns),
                e, FALSE)

\* big + small for non-zero doubles with big.e >= small.e
FAddOrdered(big, small) ==
    IF big.e - small.e >= 56 THEN big
    ELSE FAddAligned(big.neg,
                     NShiftLeft(<<big.lo, big.hi, 0, 0>>, big.e - small.e),
                     small.neg, <<small.lo, small.hi, 0, 0>>, small.e)

\* x + y
FAdd(x, y) ==
    IF FIsZero(x) /\ FIsZero(y) THEN FZero(x.neg /\ y.neg)
    ELSE IF FIsZero(x) THEN y
    ELSE IF FIsZero(y) THEN x
    ELSE FAddOrdered(IF x.e >= y.e THEN x ELSE y,
                     IF x.e >= y.e THEN y ELSE x)

FSub(x, y) == FAdd(x, FNeg(y))

\* x * y
FMul(x, y) ==
    IF FIsZero(x) \/ FIsZero(y) THEN FZero(x.neg # y.neg)
    ELSE LET a0 == x.lo % Limb
             a1 == x.lo \div Limb
             a2 == x.hi % Limb
             a3 == x.hi \div Limb
             b0 == y.lo % Limb
             b1 == y.lo \div Limb
             b2 == y.hi % Limb
             b3 == y.hi \div Limb
             c0 == a0 * b0
             c1 == a0 * b1 + a1 * b0 + (c0 \div Limb)
             c2 == a0 * b2 + a1 * b1 + a2 * b0 + (c1 \div Limb)
             c3 == a0 * b3 + a1 * b2 + a2 * b1 + a3 * b0 + (c2 \div Limb)
             c4 == a1 * b3 + a2 * b2 + a3 * b1 + (c3 \div Limb)
             c5 == a2 * b3 + a3 * b2 + (c4 \div Limb)
             c6 == a3 * b3 + (c5 \div Limb)
             c7 == c6 \div Limb
         IN  FRound(x.neg # y.neg,
                    <<(c0 % Limb) + Limb * (c1 % Limb),
                      (c2 % Limb) + Limb * (c3 % Limb),
                      (c4 % Limb) + Limb * (c5 % Limb),
                      (c6 % Limb) + Limb * c7>>,
                    x.e + y.e, FALSE)

\* one more quotient bit of the long division by d = dh * 2^28 + dl, with
\* remainder r = rh * 2^28 + rl < d and quotient q = qh * 2^28 + ql so far
FDivBit(s, dh, dl) ==
    LET rl2 == (2 * s.rl) % Word
        rh2 == 2 * s.rh + ((2 * s.rl) \div Word)
        ge == rh2 > dh \/ (rh2 = dh /\ rl2 >= dl)
        bw == IF rl2 < dl THEN 1 ELSE 0
        ql2 == 2 * s.ql + (IF ge THEN 1 ELSE 0)
    IN  [rh |-> IF ge THEN rh2 - dh - bw ELSE rh2,
         rl |-> IF ge THEN rl2 - dl + bw * Word ELSE rl2,
         qh |-> 2 * s.qh + (ql2 \div Word),
         ql |-> ql2 % Word]

\* n >= 1 more quotient bits, by halves
RECURSIVE FDivBits(_, _, _, _)
FDivBits(s, dh, dl, n) ==
    IF n = 1 THEN FDivBit(s, dh, dl)
    ELSE LET half == FDivBits(s, dh, dl, n \div 2)
         IN  IF half.rh < 0 THEN half
             ELSE FDivBits(half, dh, dl, n - (n \div 2))

\* floor(n / d) and whether the division is exact, for n < 2^84 and a
\* divisor d < 2^16: short division over the six limbs of n
NDivSmall(n, d) ==
    LET a5 == n[3] \div Limb
        a4 == (a5 % d) * Limb + (n[3] % Limb)
        a3 == (a4 % d) * Limb + (n[2] \div Limb)
        a2 == (a3 % d) * Limb + (n[2] % Limb)
        a1 == (a2 % d) * Limb + (n[1] \div Limb)
        a0 == (a1 % d) * Limb + (n[1] % Limb)
    IN  [q |-> <<(a1 \div d) * Limb + (a0 \div d),
                 (a3 \div d) * Limb + (a2 \div d),
                 (a5 \div d) * Limb + (a4 \div d), 0>>,
         exact |-> a0 % d = 0]

\* the long division of x by y before its first shift: the quotient bit
\* of the significands and the remainder
FDivStart(x, y) ==
    LET ge == x.hi > y.hi \/ (x.hi = y.hi /\ x.lo >= y.lo)
        bw == IF x.lo < y.lo THEN 1 ELSE 0
    IN  [rh |-> IF ge THEN x.hi - y.hi - bw ELSE x.hi,
         rl |-> IF ge THEN x.lo - y.lo + bw * Word ELSE x.lo,
         qh |-> 0,
         ql |-> IF ge THEN 1 ELSE 0]

\* the rounded quotient of a short division r
FDivSmall(neg, r, e) == FRound(neg, r.q, e, ~r.exact)

\* the rounded quotient of a long division s
FDivLong(neg, s, e) ==
    FRound(neg, <<s.ql, s.qh, 0, 0>>, e, s.rh # 0 \/ s.rl # 0)

\* x / y for y # 0.  A divisor whose significand is d * 2^37 with d < 2^16
\* (every int below 65536 is one) is divided by short division, any other by
\* long division; both give the correctly rounded quotient.
FDiv(x, y) ==
    IF FIsZero(x) THEN FZero(x.neg # y.neg)
    ELSE IF y.lo = 0 /\ y.hi % 512 = 0
    THEN FDivSmall(x.neg # y.neg,
                   NDivSmall(NShiftLeft(<<x.lo, x.hi, 0, 0>>, 20),
                             y.hi \div 512),
                   x.e - y.e - 57)
    ELSE FDivLong(x.neg # y.neg,
                  FDivBits(FDivStart(x, y), y.hi, y.lo, 55),
                  x.e - y.e - 55)

----------------------------------------------------------------------------
(* check_tolerance and the allocation formulas *)

\* a value the run has not computed (never a double: hi < 0)
Unset == [neg |-> FALSE, hi |-> -1, lo |-> 0, e |-> 0]
UnsetAll == [a \in Assets |-> Unset]
NoStatus == [a \in Assets |-> "unset"]

\* f_orkan + f_gold + f_cash, added left to right
Sum3(f) == FAdd(FAdd(f["orkan"], f["gold"]), f["cash"])

\* total_assets # 0
deviation_pct(gap_val, total_assets) ==
    FMul(FDiv(FAbs(gap_val), FInt(total_assets)), FInt(100))

\* variant: the split target itself falls in the wide band
threshold_exclusive(target_pct) ==
    IF target_pct < ToleranceSplit THEN NarrowBand ELSE WideBand

threshold(target_pct) ==
    IF target_pct <= ToleranceSplit THEN NarrowBand ELSE WideBand

is_within_tolerance(dev, thr) == FLe(dev, FInt(thr))

HoldText(thr) == IF thr = NarrowBand THEN "hold_5" ELSE "hold_10"

\* variant: the two deviation labels exchanged
status_text_swapped(within, gap_val, thr) ==
    IF within THEN HoldText(thr)
    ELSE IF FLt(FZero(FALSE), gap_val) THEN "sell_deviation"
    ELSE "buy_deviation"

status_text(within, gap_val, thr) ==
    IF within THEN HoldText(thr)
    ELSE IF FLt(FZero(FALSE), gap_val) THEN "buy_deviation"
    ELSE "sell_deviation"

\* defined for total_assets # 0; the division raises ZeroDivisionError otherwise
check_tolerance(gap_val, target_pct, total_assets) ==
    LET dev == deviation_pct(gap_val, total_assets)
        thr == threshold(target_pct)
        within == is_within_tolerance(dev, thr)
    IN  [adjusted_gap |-> IF within THEN FZero(FALSE) ELSE gap_val,
         status_text |-> status_text(within, gap_val, thr)]

\* variant: the gap is not clamped at 0
pos_gap_unclamped(adjusted) == adjusted

\* max(0, adjusted)
pos_gap(adjusted) ==
    IF FLt(FZero(FALSE), adjusted) THEN adjusted ELSE FZero(FALSE)

total_positive_gap(adj) == Sum3([a \in Assets |-> pos_gap(adj[a])])

deficit_alloc(fund, pos, total_pos) == FMul(FInt(fund), FDiv(pos, total_pos))

\* variant: the target share is taken as a fraction of the total ratio 1
neutral_alloc_unscaled(fund, target_pct) ==
    FMul(FInt(fund), FInt(target_pct))

neutral_alloc(fund, target_pct) ==
    FMul(FInt(fund), FDiv(FInt(target_pct), FInt(100)))

\* variant: an amount of 0 is relabelled too
relabel_nonnegative(amount, old_status) ==
    IF FLe(FZero(FALSE), amount) THEN "buy_proportional" ELSE old_status

\* variant: every asset is relabelled in the neutral branch
relabel_always(amount, old_status) == "buy_proportional"

relabel(amount, old_status) ==
    IF FLt(FZero(FALSE), amount) THEN "buy_proportional" ELSE old_status

total_ratio == target["orkan"] + target["gold"] + target["cash"]

----------------------------------------------------------------------------
(* The VIX value: the index is taken in whole points, None is VixNone *)

VixNone == [present |-> FALSE, value |-> 0]

\* Python truthiness of current_vix: None and 0.0 are both falsy
Truthy(v) == v.present /\ v.value # 0

vix_tier(value) ==
    IF value > VixPanic THEN "panic"
    ELSE IF value > VixCaution THEN "caution"
    ELSE IF value < VixCalm THEN "calm"
    ELSE "neutral"

----------------------------------------------------------------------------
(* The script run *)

NotRun ==
    /\ fault_line = 0
    /\ projected_total_assets = 0
    /\ ideal = UnsetAll
    /\ raw_gap = UnsetAll
    /\ adj_gap = UnsetAll
    /\ status = NoStatus
    /\ alloc = UnsetAll
    /\ future = UnsetAll
    /\ future_total = Unset
    /\ instructions = "unset"
    /\ current_vix = VixNone
    /\ vix_shown = "unset"

Init ==
    /\ InputSnapshot
    /\ pc = "gaps"
    /\ NotRun

\* lines 80-90
ComputeGaps ==
    /\ pc = "gaps"
    /\ LET total == current["orkan"] + current["gold"] + current["cash"]
                        + additional_fund
           idl == [a \in Assets |->
                     FMul(FInt(total), FDiv(FInt(target[a]), FInt(100)))]
       IN  /\ projected_total_assets' = total
           /\ ideal' = idl
           /\ raw_gap' = [a \in Assets |-> FSub(idl[a], FInt(current[a]))]
    /\ pc' = "tolerance"
    /\ UNCHANGED <<target, current, additional_fund, fault_line, adj_gap,
                   status, alloc, future, future_total, instructions, current_vix, vix_shown>>

\* lines 110-112, total_assets # 0
ClassifyTolerance ==
    /\ pc = "tolerance"
    /\ projected_total_assets # 0
    /\ LET res == [a \in Assets |->
                     check_tolerance(raw_gap[a], target[a],
                                     projected_total_assets)]
       IN  /\ adj_gap' = [a \in Assets |-> res[a].adjusted_gap]
           /\ status' = [a \in Assets |-> res[a].status_text]
    /\ pc' = "allocate"
    /\ UNCHANGED <<target, current, additional_fund, fault_line,
                   projected_total_assets, ideal, raw_gap, alloc, future,
                   future_total, instructions,
                   current_vix, vix_shown>>

\* line 95 reached from line 110 with total_assets = 0: ZeroDivisionError
ToleranceFault ==
    /\ pc = "tolerance"
    /\ projected_total_assets = 0
    /\ pc' = "fault"
    /\ fault_line' = 95
    /\ UNCHANGED <<target, current, additional_fund, projected_total_assets,
                   ideal, raw_gap, adj_gap, status, alloc, future,
                   future_total, instructions,
                   current_vix, vix_shown>>

\* lines 115-131
Allocate ==
    /\ pc = "allocate"
    /\ LET total_pos == total_positive_gap(adj_gap)
       IN  IF FLt(FZero(FALSE), total_pos)
           THEN /\ alloc' = [a \in Assets |->
                               deficit_alloc(additional_fund,
                                             pos_gap(adj_gap[a]), total_pos)]
                /\ status' = status
           ELSE LET al == [a \in Assets |->
                             neutral_alloc(additional_fund, target[a])]
                IN  /\ alloc' = al
                    /\ status' = [a \in Assets |-> relabel(al[a], status[a])]
    /\ pc' = "project"
    /\ UNCHANGED <<target, current, additional_fund, fault_line,
                   projected_total_assets, ideal, raw_gap, adj_gap, future,
                   future_total, instructions,
                   current_vix, vix_shown>>

\* lines 134-137
Project ==
    /\ pc = "project"
    /\ LET fut == [a \in Assets |-> FAdd(FInt(current[a]), alloc[a])]
       IN  /\ future' = fut
           /\ future_total' = Sum3(fut)
    /\ pc' = "fetch_vix"
    /\ UNCHANGED <<target, current, additional_fund, fault_line,
                   projected_total_assets, ideal, raw_gap, adj_gap, status,
                   alloc, instructions,
                   current_vix, vix_shown>>

\* line 155, get_vix_data lines 26-29: the history is not empty, its last
\* close is returned
GetVixDataValue ==
    /\ pc = "fetch_vix"
    /\ \E v \in VixChoices : current_vix' = [present |-> TRUE, value |-> v]
    /\ pc' = "tab_after"
    /\ UNCHANGED <<target, current, additional_fund, fault_line,
                   projected_total_assets, ideal, raw_gap, adj_gap, status,
                   alloc, future, future_total, instructions, vix_shown>>

\* line 155, get_vix_data lines 27, 32: the history is empty
GetVixDataEmpty ==
    /\ pc = "fetch_vix"
    /\ current_vix' = VixNone
    /\ pc' = "tab_after"
    /\ UNCHANGED <<target, current, additional_fund, fault_line,
                   projected_total_assets, ideal, raw_gap, adj_gap, status,
                   alloc, future, future_total, instructions, vix_shown>>

\* line 155, get_vix_data lines 30-31: the download raised
GetVixDataException ==
    /\ pc = "fetch_vix"
    /\ current_vix' = VixNone
    /\ pc' = "tab_after"
    /\ UNCHANGED <<target, current, additional_fund, fault_line,
                   projected_total_assets, ideal, raw_gap, adj_gap, status,
                   alloc, future, future_total, instructions, vix_shown>>

\* lines 211-216, future_total # 0: the three percentages are formatted and
\* shown
RenderAfterTab ==
    /\ pc = "tab_after"
    /\ ~FIsZero(future_total)
    /\ pc' = "instructions"
    /\ UNCHANGED <<target, current, additional_fund, fault_line,
                   projected_total_assets, ideal, raw_gap, adj_gap, status,
                   alloc, future, future_total, instructions,
                   current_vix, vix_shown>>

\* line 214 with future_total = 0: ZeroDivisionError
RenderAfterFault ==
    /\ pc = "tab_after"
    /\ FIsZero(future_total)
    /\ pc' = "fault"
    /\ fault_line' = 214
    /\ UNCHANGED <<target, current, additional_fund, projected_total_assets,
                   ideal, raw_gap, adj_gap, status, alloc, future,
                   future_total, instructions,
                   current_vix, vix_shown>>

\* lines 221-255: the warning, or the instruction table and the steps
RenderInstructions ==
    /\ pc = "instructions"
    /\ instructions' = IF additional_fund <= 0 THEN "warning" ELSE "table"
    /\ pc' = "vix_panel"
    /\ UNCHANGED <<target, current, additional_fund, fault_line,
                   projected_total_assets, ideal, raw_gap, adj_gap, status,
                   alloc, future, future_total, current_vix, vix_shown>>

\* lines 308-328
ShowVix ==
    /\ pc = "vix_panel"
    /\ vix_shown' = IF Truthy(current_vix) THEN vix_tier(current_vix.value)
                    ELSE "unavailable"
    /\ pc' = "done"
    /\ UNCHANGED <<target, current, additional_fund, fault_line,
                   projected_total_assets, ideal, raw_gap, adj_gap, status,
                   alloc, future, future_total, instructions, current_vix>>

Next ==
    \/ ComputeGaps
    \/ ClassifyTolerance
    \/ ToleranceFault
    \/ Allocate
    \/ Project
    \/ GetVixDataValue
    \/ GetVixDataEmpty
    \/ GetVixDataException
    \/ RenderAfterTab
    \/ RenderAfterFault
    \/ RenderInstructions
    \/ ShowVix

Spec == Init /\ [][Next]_vars

----------------------------------------------------------------------------
(* Properties *)

\* the allocation step has produced amounts
Allocated == alloc # UnsetAll

\* the allocation step has just run
JustAllocated == pc = "project"

NonNegativeInputs ==
    /\ additional_fund >= 0
    /\ \A a \in Assets : target[a] >= 0 /\ current[a] >= 0

Positive(x) == FLt(FZero(FALSE), x)
Negative(x) == FLt(x, FZero(FALSE))

\* 2^-30, far above the rounding error of a run and far below any amount
Epsilon == [neg |-> FALSE, hi |-> TopWord, lo |-> 0, e |-> -82]

\* equal up to rounding
Near(x, y) == FLe(FAbs(FSub(x, y)), Epsilon)

PositivePart(x) == IF Positive(x) THEN x ELSE FZero(FALSE)

PositiveTotal ==
    FAdd(FAdd(PositivePart(adj_gap["orkan"]), PositivePart(adj_gap["gold"])),
         PositivePart(adj_gap["cash"]))

\* at least one asset has a positive adjusted gap / none has
DeficitBranch == Allocated /\ \E a \in Assets : Positive(adj_gap[a])
NeutralBranch == Allocated /\ \A a \in Assets : ~Positive(adj_gap[a])

AllocSum == FAdd(FAdd(alloc["orkan"], alloc["gold"]), alloc["cash"])

\* the label check_tolerance gives the asset, whatever happened to status since
ToleranceLabel(a) ==
    check_tolerance(raw_gap[a], target[a], projected_total_assets).status_text

IsHold(s) == s \in {"hold_5", "hold_10"}

\* 100 * n
NTimes100(n) ==
    NAdd(NAdd(NShiftLeft(n, 6), NShiftLeft(n, 5)), NShiftLeft(n, 2))

\* |gap| / total * 100 <= pct in exact arithmetic on the double gap, for
\* total > 0 and pct >= 1: 100 * |gap| <= pct * total, without any rounding
ExactWithin(gap, pct, total) ==
    IF FIsZero(gap) THEN TRUE
    ELSE IF gap.e >= 0 THEN FALSE
    ELSE IF gap.e < -80 THEN TRUE
    ELSE ~NLess(NShiftLeft(<<(pct * total) % Word, (pct * total) \div Word,
                             0, 0>>, -gap.e),
                NTimes100(<<gap.lo, gap.hi, 0, 0>>))

\* C1 (as claimed): for non-negative current values, target ratios as typed
\* and additional_fund >= 0, the allocated amounts sum to additional_fund (up
\* to rounding) in either branch.
C1_SumIsFund ==
    (JustAllocated /\ NonNegativeInputs)
        => Near(AllocSum, FInt(additional_fund))

\* C1 (amended): for non-negative inputs the amounts sum, up to rounding, to
\* additional_fund in the deficit-priority branch and to
\* additional_fund * total_ratio / 100 in the neutral branch, hence to
\* additional_fund whenever the target ratios sum to 100.
C1_SumIsFundForRatio100 ==
    (JustAllocated /\ NonNegativeInputs) =>
        LET sum == AllocSum
        IN  /\ DeficitBranch => Near(sum, FInt(additional_fund))
            /\ NeutralBranch =>
                  Near(sum, FDiv(FInt(additional_fund * total_ratio),
                                 FInt(100)))
            /\ total_ratio = 100 => Near(sum, FInt(additional_fund))

C1_Witness ==
    /\ JustAllocated
    /\ NonNegativeInputs
    /\ NeutralBranch
    /\ total_ratio = 100
    /\ additional_fund > 0
    /\ Near(AllocSum, FInt(additional_fund))

\* C2: whenever the allocation step has produced amounts, no asset's amount
\* is negative.
C2_NoNegativeAmount ==
    Allocated => \A a \in Assets : ~Negative(alloc[a])

\* C3: with additional_fund < 0 the engine produces neither allocation
\* amounts nor projected balances.
C3_NegativeFundRejected ==
    additional_fund < 0 => (alloc = UnsetAll /\ future = UnsetAll)

\* C4: with all current values 0 and additional_fund 0 the run never faults,
\* and when it has finished every ideal amount, gap and amount is 0 and every
\* asset is held within tolerance.
C4_ZeroTotalCompletes ==
    ((\A a \in Assets : current[a] = 0) /\ additional_fund = 0) =>
        /\ pc # "fault"
        /\ pc = "done" =>
              \A a \in Assets :
                  /\ FIsZero(ideal[a])
                  /\ FIsZero(raw_gap[a])
                  /\ IsHold(status[a])
                  /\ FIsZero(alloc[a])

\* C5: with additional_fund = 0 every allocated amount is 0 and every final
\* classification is the label the tolerance classifier produced.
C5_ZeroFundKeepsLabels ==
    (JustAllocated /\ additional_fund = 0) =>
        \A a \in Assets :
            /\ FIsZero(alloc[a])
            /\ status[a] = ToleranceLabel(a)

C5_Witness ==
    /\ JustAllocated
    /\ additional_fund = 0
    /\ NeutralBranch
    /\ \E a \in Assets : status[a] = "sell_deviation"
    /\ \E a \in Assets : IsHold(status[a]) /\ target[a] > 0

\* |raw_gap| / projected_total * 100 of an asset, as the doubles of the run
\* give it
Deviation(a) ==
    FMul(FDiv(FAbs(raw_gap[a]), FInt(projected_total_assets)), FInt(100))

C7_DeficitPriority ==
    (JustAllocated /\ DeficitBranch) =>
        /\ LET total == PositiveTotal
           IN  \A a \in Assets :
                 /\ Near(alloc[a],
                         FDiv(FMul(FInt(additional_fund),
                                   PositivePart(adj_gap[a])), total))
                 /\ ~Positive(adj_gap[a]) => FIsZero(alloc[a])
        /\ Near(AllocSum, FInt(additional_fund))
        /\ (/\ target = DefaultTarget
            /\ current = DefaultCurrent
            /\ additional_fund = 100)
              => alloc = [a \in Assets |->
                            IF a = "cash" THEN FInt(100) ELSE FZero(FALSE)]

C7_Witness ==
    /\ JustAllocated
    /\ DeficitBranch
    /\ target = DefaultTarget
    /\ current = DefaultCurrent
    /\ additional_fund = 100
    /\ alloc["cash"] = FInt(100)
    /\ IsHold(status["orkan"]) /\ IsHold(status["gold"])

\* C8: in the neutral branch every asset receives
\* additional_fund * target_ratio / 100 (up to rounding), an over-target
\* out-of-tolerance asset included; an asset receiving a positive amount is
\* relabelled Buy-proportional and an asset receiving 0 keeps its tolerance
\* label; targets 60/10/30 with additional_fund 100 give 60/10/30.
C8_NeutralBranch ==
    (JustAllocated /\ NeutralBranch) =>
        /\ \A a \in Assets :
              /\ Near(alloc[a],
                      FDiv(FInt(additional_fund * target[a]), FInt(100)))
              /\ Positive(alloc[a]) => status[a] = "buy_proportional"
              /\ FIsZero(alloc[a]) => status[a] = ToleranceLabel(a)
        /\ (target = DefaultTarget /\ additional_fund = 100)
              => alloc = [a \in Assets |->
                            IF a = "orkan" THEN FInt(60)
                            ELSE IF a = "gold" THEN FInt(10) ELSE FInt(30)]

\* the neutral branch with an over-target, out-of-tolerance asset that is
\* funded and relabelled, and an asset with target 0 that keeps its label
C8_Witness ==
    /\ JustAllocated
    /\ NeutralBranch
    /\ additional_fund > 0
    /\ \E a \in Assets :
          /\ Negative(adj_gap[a])
          /\ Positive(alloc[a])
          /\ status[a] = "buy_proportional"
    /\ \E a \in Assets :
          /\ FIsZero(alloc[a])
          /\ status[a] = "sell_deviation"

\* C9: every present index value is shown as its tier (> 30 panic, > 20
\* caution, < 15 calm, otherwise neutral) and only an absent value is shown
\* as unavailable.
C9_SentimentTier ==
    pc = "done" =>
        IF current_vix.present
        THEN vix_shown = (IF current_vix.value > 30 THEN "panic"
                          ELSE IF current_vix.value > 20 THEN "caution"
                          ELSE IF current_vix.value < 15 THEN "calm"
                          ELSE "neutral")
        ELSE vix_shown = "unavailable"

\* C10: an asset that receives a positive amount is labelled Buy-deviation
\* or Buy-proportional; with non-negative inputs an asset labelled
\* Hold-in-tolerance or Sell-deviation receives exactly 0; Buy-proportional
\* appears only in the neutral branch.
C10_LabelMatchesAmount ==
    Allocated =>
        \A a \in Assets :
            /\ Positive(alloc[a])
                  => status[a] \in {"buy_deviation", "buy_proportional"}
            /\ (NonNegativeInputs
                    /\ (IsHold(status[a]) \/ status[a] = "sell_deviation"))
                  => FIsZero(alloc[a])
            /\ status[a] = "buy_proportional" => NeutralBranch

\* the deficit branch funding two assets and leaving an over-target one at 0
C10_Witness ==
    /\ pc = "done"
    /\ DeficitBranch
    /\ additional_fund > 0
    /\ Cardinality({a \in Assets : status[a] = "buy_deviation"
                                      /\ Positive(alloc[a])}) = 2
    /\ \E a \in Assets : status[a] = "sell_deviation" /\ FIsZero(alloc[a])

====
